---- MODULE Spec2Model ----
(***************************************************************************)
(* A model of segeval's WindowDiff metric (window/WindowDiff.py,           *)
(* window_diff) and of the Fleiss' Pi agreement statistic                  *)
(* (agreement/pi.py, __fleiss_pi_linear__).                                *)
(*                                                                         *)
(* Both functions are Python 2 code.  Each is modelled as a state machine  *)
(* whose steps are the statements of the function, so that the order of    *)
(* the checks, the window loop and the final divisions are visible.        *)
(*                                                                         *)
(* decimal.Decimal quotients are modelled as exact reduced fractions       *)
(* <<numerator, denominator>>.  Decimal rounds a quotient to 28            *)
(* significant digits; two different fractions whose numerators and        *)
(* denominators are as small as the ones arising here never round to the   *)
(* same Decimal, so equality and order of results are preserved.           *)
(***************************************************************************)
EXTENDS Integers, Sequences, FiniteSets, TLC

\* ------------------------------------------------------------------ bounds
\* longest position sequence handed to window_diff directly
MaxLen == 3
\* window sizes tried range over -MaxNegWindow .. (length bound + MaxOverWindow)
MaxNegWindow == 1
MaxOverWindow == 1
\* largest item (in units) of the mass-form inputs of the pairwise wrapper
MaxUnits == 6
\* labels of directly supplied position sequences: 0 is also the label the
\* phantom units carry, 1 is a label different from it (the code only ever
\* compares labels for equality)
Labels == {0, 1}

\* ----------------------------------------------------- Python primitives
Min(a, b) == IF a < b THEN a ELSE b
Max(a, b) == IF a > b THEN a ELSE b

\* [x] * n : an empty list when n <= 0
Repeat(x, n) == [j \in 1 .. Max(n, 0) |-> x]

\* zip(a, b) : pairs, truncated to the shorter list
Zip(a, b) == [j \in 1 .. Min(Len(a), Len(b)) |-> <<a[j], b[j]>>]

\* a slice bound as Python normalises it: negative counts from the end,
\* then clamped to 0 .. len
SliceIndex(x, n) == IF x < 0 THEN Max(x + n, 0) ELSE Min(x, n)

\* s[start:stop] (0-based, stop exclusive)
PySlice(s, start, stop) ==
    LET lo == SliceIndex(start, Len(s))
        hi == SliceIndex(stop, Len(s))
    IN  IF hi <= lo THEN << >> ELSE [j \in 1 .. (hi - lo) |-> s[lo + j]]

\* xrange(0, n) as a set of indices
XRange(n) == 0 .. (n - 1)

RECURSIVE GCD(_, _)
GCD(a, b) == IF b = 0 THEN a ELSE GCD(b, a % b)

Abs(a) == IF a < 0 THEN -a ELSE a

\* the fraction a / b (b # 0) in lowest terms with a positive denominator
Frac(a, b) ==
    LET g == GCD(Abs(a), Abs(b))
        s == IF b < 0 THEN -1 ELSE 1
    IN  <<(s * a) \div g, Abs(b) \div g>>

FracAdd(x, y) == Frac(x[1] * y[2] + y[1] * x[2], x[2] * y[2])
FracSub(x, y) == Frac(x[1] * y[2] - y[1] * x[2], x[2] * y[2])
FracMul(x, y) == Frac(x[1] * y[1], x[2] * y[2])
FracLeq(x, y) == x[1] * y[2] <= y[1] * x[2]

\* outcomes of a call
Returned(v) == [kind |-> "return", value |-> v, error |-> "none"]
Raised(e)   == [kind |-> "raise", value |-> <<0, 1>>, error |-> e]
Pending     == [kind |-> "pending", value |-> <<0, 1>>, error |-> "none"]

\* x / y for Decimals x and y: 0 / 0 signals InvalidOperation, any other
\* division by zero DivisionByZero, and both are raised as exceptions
FracDivide(x, y) ==
    IF y[1] # 0 THEN Returned(Frac(x[1] * y[2], x[2] * y[1]))
    ELSE IF x[1] = 0 THEN Raised("InvalidOperation")
    ELSE Raised("DivisionByZero")

\* Decimal(a) / b for integers a and b
DecimalDivide(a, b) == FracDivide(<<a, 1>>, <<b, 1>>)

\* ------------------------------------------------- collaborators of window_diff
\* convert_masses_to_positions: each mass m becomes m copies of the next
\* label, labels counting up from 1
RECURSIVE ExpandMasses(_, _)
ExpandMasses(masses, label) ==
    IF masses = << >> THEN << >>
    ELSE Repeat(label, Head(masses)) \o ExpandMasses(Tail(masses), label + 1)

convert_masses_to_positions(masses) == ExpandMasses(masses, 1)

\* number of segments of a position sequence: maximal runs of equal labels
SegmentCount(positions) ==
    IF positions = << >> THEN 0
    ELSE 1 + Cardinality({j \in 1 .. (Len(positions) - 1) :
                             positions[j] # positions[j + 1]})

\* compute_window_size: half the mean segment length of the reference,
\* rounded to the nearest integer (a half rounds up, as Python 2's round
\* does), and never below 2
compute_window_size(positions) ==
    LET units    == Len(positions)
        segments == SegmentCount(positions)
        rounded  == (units + segments) \div (2 * segments)
    IN  IF rounded > 1 THEN rounded ELSE 2

\* ------------------------------------------------------------ window_diff
VARIABLES
    call,                     \* the arguments as the caller passed them
    hypothesis_positions,     \* parameter, rebound by the conversion
    reference_positions,      \* parameter, rebound by the conversion
    window_size,              \* << >> is None, <<k>> the integer k
    one_minus,
    lamprier_et_al_2007_fix,
    convert_from_masses,
    pc,                       \* position in window_diff
    sum_differences,
    units_ref_hyp,
    phantom_size,
    i,                        \* next value of the window loop's index
    window,                   \* the window of the last iteration
    ref_boundaries,           \* its boundary counts
    hyp_boundaries,
    result                    \* what the call returned or raised

\* ---------------------------------------------------- __fleiss_pi_linear__
VARIABLES
    items_masses,             \* the dataset: per coder, the list of its items'
                              \* mass sequences
    return_parts,
    pi_pc,                    \* position in __fleiss_pi_linear__
    num_items,
    all_numerators,
    all_denominators,
    coders_boundaries,
    A_a,
    p_e_segs,
    A_e,
    pi,
    pi_result                 \* what the call returned or raised

wd_vars == <<call, hypothesis_positions, reference_positions, window_size,
             one_minus, lamprier_et_al_2007_fix, convert_from_masses, pc,
             sum_differences, units_ref_hyp, phantom_size, i, window,
             ref_boundaries, hyp_boundaries, result>>

pi_vars == <<items_masses, return_parts, pi_pc, num_items, all_numerators,
             all_denominators, coders_boundaries, A_a, p_e_segs, A_e, pi,
             pi_result>>

vars == <<wd_vars, pi_vars>>

\* a local that has not been assigned yet
Unset == << >>

\* no call of __fleiss_pi_linear__ is in progress
PiIdle ==
    /\ items_masses = << >>
    /\ return_parts = FALSE
    /\ pi_pc = "idle"
    /\ num_items = 0
    /\ all_numerators = << >>
    /\ all_denominators = << >>
    /\ coders_boundaries = << >>
    /\ A_a = Unset
    /\ p_e_segs = << >>
    /\ A_e = Unset
    /\ pi = Unset
    /\ pi_result = Pending

None == << >>
WindowSize == window_size[1]

\* all mass sequences (positive run lengths) of exactly n units
RECURSIVE Compositions(_)
Compositions(n) ==
    IF n = 0 THEN {<< >>}
    ELSE UNION {{<<first>> \o rest : rest \in Compositions(n - first)} :
                   first \in 1 .. n}

MassSequences(n)     == UNION {Compositions(m) : m \in 1 .. n}
PositionSequences(n) == UNION {[1 .. m -> Labels] : m \in 1 .. n}
WindowSizes(n) ==
    {None} \cup {<<k>> : k \in (0 - MaxNegWindow) .. (n + MaxOverWindow)}

\* the state on entry to window_diff(h, r, ws, om, fix, conv)
Entry(h, r, ws, om, fix, conv) ==
    /\ call = [hypothesis |-> h, reference |-> r, window_size |-> ws]
    /\ hypothesis_positions = h
    /\ reference_positions = r
    /\ window_size = ws
    /\ one_minus = om
    /\ lamprier_et_al_2007_fix = fix
    /\ convert_from_masses = conv
    /\ pc = "entry"
    /\ sum_differences = 0
    /\ units_ref_hyp = << >>
    /\ phantom_size = 0
    /\ i = 0
    /\ window = << >>
    /\ ref_boundaries = 0
    /\ hyp_boundaries = 0
    /\ result = Pending

\* calls with short arguments of every shape: positions or masses, equal or
\* unequal lengths, window sizes from negative to beyond the sequence
Init ==
    \E conv \in BOOLEAN, om \in BOOLEAN, fix \in BOOLEAN,
       ws \in WindowSizes(MaxLen) :
        \E h, r \in (IF conv THEN MassSequences(MaxLen)
                             ELSE PositionSequences(MaxLen)) :
            Entry(h, r, ws, om, fix, conv) /\ PiIdle

\* lines 77-80
Convert ==
    /\ pc = "entry"
    /\ reference_positions' =
          IF convert_from_masses
          THEN convert_masses_to_positions(reference_positions)
          ELSE reference_positions
    /\ hypothesis_positions' =
          IF convert_from_masses
          THEN convert_masses_to_positions(hypothesis_positions)
          ELSE hypothesis_positions
    /\ pc' = "converted"
    /\ UNCHANGED <<call, window_size, one_minus, lamprier_et_al_2007_fix,
                   convert_from_masses, sum_differences, units_ref_hyp,
                   phantom_size, i, window, ref_boundaries, hyp_boundaries,
                   result>>
    /\ UNCHANGED pi_vars

\* a length check that only notices a reference longer than the hypothesis
LengthsDifferOneSided(ref, hyp) == Len(ref) > Len(hyp)

\* line 82
LengthsDiffer(ref, hyp) == Len(ref) # Len(hyp)

\* lines 81-84
CheckLengths ==
    /\ pc = "converted"
    /\ IF LengthsDiffer(reference_positions, hypothesis_positions)
       THEN /\ result' = Raised("SegmentationMetricError")
            /\ pc' = "raised"
       ELSE /\ result' = result
            /\ pc' = "checked"
    /\ UNCHANGED <<call, hypothesis_positions, reference_positions,
                   window_size, one_minus, lamprier_et_al_2007_fix,
                   convert_from_masses, sum_differences, units_ref_hyp,
                   phantom_size, i, window, ref_boundaries, hyp_boundaries>>
    /\ UNCHANGED pi_vars

\* lines 85-87
ComputeWindowSize ==
    /\ pc = "checked"
    /\ window_size' =
          IF window_size = None
          THEN <<compute_window_size(reference_positions)>>
          ELSE window_size
    /\ pc' = "sized"
    /\ UNCHANGED <<call, hypothesis_positions, reference_positions, one_minus,
                   lamprier_et_al_2007_fix, convert_from_masses,
                   sum_differences, units_ref_hyp, phantom_size, i, window,
                   ref_boundaries, hyp_boundaries, result>>
    /\ UNCHANGED pi_vars

\* the list of (reference, hypothesis) unit pairs of lines 93-98
UnitPairs(ref, hyp, size, fix) ==
    IF ~fix
    THEN Zip(ref, hyp)
    ELSE LET phantom == Repeat(0, size - 1)
         IN  Zip(phantom \o ref \o phantom, phantom \o hyp \o phantom)

\* lines 88-98
BuildUnits ==
    /\ pc = "sized"
    /\ sum_differences' = 0
    /\ phantom_size' = WindowSize - 1
    /\ units_ref_hyp' = UnitPairs(reference_positions, hypothesis_positions,
                                  WindowSize, lamprier_et_al_2007_fix)
    /\ i' = 0
    /\ pc' = "sliding"
    /\ UNCHANGED <<call, hypothesis_positions, reference_positions,
                   window_size, one_minus, lamprier_et_al_2007_fix,
                   convert_from_masses, window, ref_boundaries,
                   hyp_boundaries, result>>
    /\ UNCHANGED pi_vars

\* lines 105-112: the boundaries of one segmentation (side 1 the reference,
\* side 2 the hypothesis) inside a window: adjacent units whose labels differ
Boundaries(w, side) ==
    Cardinality({j \in XRange(Len(w) - 1) : w[j + 1][side] # w[j + 2][side]})

\* line 101
WindowAt(units, start, size) == PySlice(units, start, start + size)

\* a comparison that only notices a window with more reference boundaries
WindowDiffersOneSided(w) == Boundaries(w, 1) > Boundaries(w, 2)

\* line 114
WindowDiffers(w) == Boundaries(w, 1) # Boundaries(w, 2)

\* the values the loop index of line 100 takes
WindowStarts(units, size) == XRange(Len(units) - size + 1)

\* lines 99-115, one iteration of the window loop
SlideWindow ==
    /\ pc = "sliding"
    /\ i \in WindowStarts(units_ref_hyp, WindowSize)
    /\ window' = WindowAt(units_ref_hyp, i, WindowSize)
    /\ ref_boundaries' = Boundaries(window', 1)
    /\ hyp_boundaries' = Boundaries(window', 2)
    /\ sum_differences' =
          IF WindowDiffers(window') THEN sum_differences + 1
                                    ELSE sum_differences
    /\ i' = i + 1
    /\ UNCHANGED <<call, hypothesis_positions, reference_positions,
                   window_size, one_minus, lamprier_et_al_2007_fix,
                   convert_from_masses, pc, units_ref_hyp, phantom_size,
                   result>>
    /\ UNCHANGED pi_vars

\* lines 117-119
Normalizer(ref, size, fix) ==
    LET n == Len(ref) + 1
    IN  (IF fix THEN n + (size - 1) ELSE n) - size

\* a final division with the one_minus test the wrong way round
ScoreInverted(differences, denominator, om) ==
    LET win_diff == DecimalDivide(differences, denominator)
    IN  IF win_diff.kind = "raise" \/ om THEN win_diff
        ELSE Returned(FracSub(<<1, 1>>, win_diff.value))

\* lines 120-124
Score(differences, denominator, om) ==
    LET win_diff == DecimalDivide(differences, denominator)
    IN  IF win_diff.kind = "raise" \/ ~om THEN win_diff
        ELSE Returned(FracSub(<<1, 1>>, win_diff.value))

\* lines 116-124, once the window loop has run out
Divide ==
    /\ pc = "sliding"
    /\ i \notin WindowStarts(units_ref_hyp, WindowSize)
    /\ result' = Score(sum_differences,
                       Normalizer(reference_positions, WindowSize,
                                  lamprier_et_al_2007_fix),
                       one_minus)
    /\ pc' = IF result'.kind = "raise" THEN "raised" ELSE "returned"
    /\ UNCHANGED <<call, hypothesis_positions, reference_positions,
                   window_size, one_minus, lamprier_et_al_2007_fix,
                   convert_from_masses, sum_differences, units_ref_hyp,
                   phantom_size, i, window, ref_boundaries, hyp_boundaries>>
    /\ UNCHANGED pi_vars

Next ==
    \/ Convert
    \/ CheckLengths
    \/ ComputeWindowSize
    \/ BuildUnits
    \/ SlideWindow
    \/ Divide

Spec == Init /\ [][Next]_vars

\* window_diff as a function of its arguments: the outcome of the steps above
WindowDiffOutcome(h, r, ws, om, fix, conv) ==
    LET ref   == IF conv THEN convert_masses_to_positions(r) ELSE r
        hyp   == IF conv THEN convert_masses_to_positions(h) ELSE h
        size  == IF ws = None THEN compute_window_size(ref) ELSE ws[1]
        units == UnitPairs(ref, hyp, size, fix)
        differences ==
            Cardinality({s \in WindowStarts(units, size) :
                            WindowDiffers(WindowAt(units, s, size))})
    IN  IF LengthsDiffer(ref, hyp) THEN Raised("SegmentationMetricError")
        ELSE Score(differences, Normalizer(ref, size, fix), om)

\* ------------------------------------------------- pairwise_window_diff
\* The calls wrapper makes for compute_pairwise: two coders' mass sequences
\* of one item, which by the dataset's invariant have the same number of
\* units, converted from masses.  The window size is tried both unspecified
\* (as wrapper passes it) and explicit.
InitPairwise ==
    \E om \in BOOLEAN, fix \in BOOLEAN, ws \in WindowSizes(MaxUnits),
       units \in 1 .. MaxUnits :
        \E h, r \in Compositions(units) :
            Entry(h, r, ws, om, fix, TRUE) /\ PiIdle

SpecPairwise == InitPairwise /\ [][Next]_vars

\* ---------------------------------------------------- __fleiss_pi_linear__
\* bounds of the datasets tried
MaxCoders == 2
MaxItems == 2
MaxItemUnits == 3
\* CPython keeps one shared object for each int up to 256; `is` on two equal
\* larger ints compares two different objects
SmallIntMax == 256

\* sum(s) and list concatenation, folded by halves to keep the evaluation
\* shallow on long lists
RECURSIVE SumRange(_, _, _)
SumRange(s, lo, hi) ==
    IF lo > hi THEN 0
    ELSE IF lo = hi THEN s[lo]
    ELSE LET mid == (lo + hi) \div 2
         IN  SumRange(s, lo, mid) + SumRange(s, mid + 1, hi)

SumSeq(s) == SumRange(s, 1, Len(s))

RECURSIVE SumFracRange(_, _, _)
SumFracRange(s, lo, hi) ==
    IF lo > hi THEN <<0, 1>>
    ELSE IF lo = hi THEN s[lo]
    ELSE LET mid == (lo + hi) \div 2
         IN  FracAdd(SumFracRange(s, lo, mid), SumFracRange(s, mid + 1, hi))

SumFracs(s) == SumFracRange(s, 1, Len(s))

RECURSIVE FlattenRange(_, _, _)
FlattenRange(ss, lo, hi) ==
    IF lo > hi THEN << >>
    ELSE IF lo = hi THEN ss[lo]
    ELSE LET mid == (lo + hi) \div 2
         IN  FlattenRange(ss, lo, mid) \o FlattenRange(ss, mid + 1, hi)

Flatten(ss) == FlattenRange(ss, 1, Len(ss))

Coders(dataset) == 1 .. Len(dataset)

\* the boundary positions (1 .. units - 1) of a mass sequence
BoundarySet(masses) ==
    LET positions == convert_masses_to_positions(masses)
    IN  {b \in 1 .. (Len(positions) - 1) : positions[b] # positions[b + 1]}

\* the possible values of `a is not b` for two ints
IsNot(a, b) ==
    IF a # b THEN {TRUE}
    ELSE IF a <= SmallIntMax THEN {FALSE}
    ELSE BOOLEAN

\* lines 19-20: whether the list of coders whose item count `is not`
\* num_items can come out non-empty (TRUE) or empty (FALSE)
UnequalItems(dataset, n) ==
    {unequal \in BOOLEAN :
        IF unequal
        THEN \E c \in Coders(dataset) : TRUE \in IsNot(Len(dataset[c]), n)
        ELSE \A c \in Coders(dataset) : FALSE \in IsNot(Len(dataset[c]), n)}

\* __actual_agreement_linear__ with return_parts set: for every item and
\* every unordered pair of coders, the number of boundary positions on which
\* the two agree and the number of positions compared (units - 1); and per
\* coder, for every item, the pair (boundaries placed, units - 1)
CoderPairs(dataset) ==
    {<<a, b>> \in Coders(dataset) \X Coders(dataset) : a < b}

RECURSIVE PairList(_)
PairList(pairs) ==
    IF pairs = {} THEN << >>
    ELSE LET p == CHOOSE q \in pairs : \A o \in pairs : q[1] < o[1] \/ (q[1] = o[1] /\ q[2] <= o[2])
         IN  <<p>> \o PairList(pairs \ {p})

Agreeing(m1, m2) ==
    Cardinality({b \in 1 .. (SumSeq(m1) - 1) :
                    (b \in BoundarySet(m1)) <=> (b \in BoundarySet(m2))})

actual_agreement_linear(dataset, n) ==
    LET pairs == PairList(CoderPairs(dataset))
    IN  [numerators |->
            Flatten([j \in 1 .. n |->
                [k \in 1 .. Len(pairs) |->
                    Agreeing(dataset[pairs[k][1]][j], dataset[pairs[k][2]][j])]]),
         denominators |->
            Flatten([j \in 1 .. n |->
                [k \in 1 .. Len(pairs) |-> SumSeq(dataset[pairs[k][1]][j]) - 1]]),
         coders_boundaries |->
            [c \in Coders(dataset) |->
                [j \in 1 .. n |->
                    <<Cardinality(BoundarySet(dataset[c][j])),
                      SumSeq(dataset[c][j]) - 1>>]]]

\* the state on entry to __fleiss_pi_linear__(dataset, return_parts=parts)
PiEntry(dataset, parts) ==
    /\ items_masses = dataset
    /\ return_parts = parts
    /\ pi_pc = "entry"
    /\ num_items = 0
    /\ all_numerators = << >>
    /\ all_denominators = << >>
    /\ coders_boundaries = << >>
    /\ A_a = Unset
    /\ p_e_segs = << >>
    /\ A_e = Unset
    /\ pi = Unset
    /\ pi_result = Pending

\* no call of window_diff is in progress
WdIdle ==
    /\ call = [hypothesis |-> << >>, reference |-> << >>, window_size |-> None]
    /\ hypothesis_positions = << >>
    /\ reference_positions = << >>
    /\ window_size = None
    /\ one_minus = FALSE
    /\ lamprier_et_al_2007_fix = FALSE
    /\ convert_from_masses = FALSE
    /\ pc = "idle"
    /\ sum_differences = 0
    /\ units_ref_hyp = << >>
    /\ phantom_size = 0
    /\ i = 0
    /\ window = << >>
    /\ ref_boundaries = 0
    /\ hyp_boundaries = 0
    /\ result = Pending

ItemLists(n) == UNION {[1 .. m -> MassSequences(MaxItemUnits)] : m \in 0 .. n}

\* the same item has the same number of units for every coder
SameItemLengths(dataset) ==
    \A a, b \in Coders(dataset) :
        \A j \in 1 .. Min(Len(dataset[a]), Len(dataset[b])) :
            SumSeq(dataset[a][j]) = SumSeq(dataset[b][j])

SmallDatasets ==
    {d \in UNION {[1 .. c -> ItemLists(MaxItems)] : c \in 1 .. MaxCoders} :
        SameItemLengths(d)}

\* datasets of many two-unit items, each coder segmenting all of its items
\* alike: item counts on both sides of SmallIntMax
LargeDatasets ==
    UNION {{[c \in 1 .. coders |-> [j \in 1 .. count[c] |-> masses[c]]] :
               count \in [1 .. coders -> {SmallIntMax, SmallIntMax + 1}],
               masses \in [1 .. coders -> Compositions(2)]} :
           coders \in 1 .. MaxCoders}

InitPi ==
    \E dataset \in SmallDatasets \cup LargeDatasets, parts \in BOOLEAN :
        PiEntry(dataset, parts) /\ WdIdle

\* line 18 (the dataset has at least one coder)
PiCountItems ==
    /\ pi_pc = "entry"
    /\ num_items' = Len(items_masses[1])
    /\ pi_pc' = "counted"
    /\ UNCHANGED <<items_masses, return_parts, all_numerators,
                   all_denominators, coders_boundaries, A_a, p_e_segs, A_e,
                   pi, pi_result>>
    /\ UNCHANGED wd_vars

\* lines 19-21
PiCheckItems ==
    /\ pi_pc = "counted"
    /\ \E unequal \in UnequalItems(items_masses, num_items) :
          IF unequal
          THEN /\ pi_result' = Raised("Unequal number of items contained.")
               /\ pi_pc' = "raised"
          ELSE /\ pi_result' = pi_result
               /\ pi_pc' = "checked"
    /\ UNCHANGED <<items_masses, return_parts, num_items, all_numerators,
                   all_denominators, coders_boundaries, A_a, p_e_segs, A_e,
                   pi>>
    /\ UNCHANGED wd_vars

\* lines 22-24
PiActualAgreement ==
    /\ pi_pc = "checked"
    /\ LET parts == actual_agreement_linear(items_masses, num_items)
       IN  /\ all_numerators' = parts.numerators
           /\ all_denominators' = parts.denominators
           /\ coders_boundaries' = parts.coders_boundaries
    /\ pi_pc' = "agreement"
    /\ UNCHANGED <<items_masses, return_parts, num_items, A_a, p_e_segs, A_e,
                   pi, pi_result>>
    /\ UNCHANGED wd_vars

\* line 26
ObservedAgreement(numerators, denominators) ==
    DecimalDivide(SumSeq(numerators), SumSeq(denominators))

\* lines 25-26
PiObserved ==
    /\ pi_pc = "agreement"
    /\ LET quotient == ObservedAgreement(all_numerators, all_denominators)
       IN  IF quotient.kind = "raise"
           THEN /\ pi_result' = quotient
                /\ pi_pc' = "raised"
                /\ A_a' = A_a
           ELSE /\ pi_result' = pi_result
                /\ pi_pc' = "observed"
                /\ A_a' = quotient.value
    /\ UNCHANGED <<items_masses, return_parts, num_items, all_numerators,
                   all_denominators, coders_boundaries, p_e_segs, A_e, pi>>
    /\ UNCHANGED wd_vars

\* lines 29-33: the quotient of every (coder, item) observation, in order
SegmentProbabilities(boundaries) ==
    LET infos == Flatten(boundaries)
    IN  [k \in 1 .. Len(infos) |-> DecimalDivide(infos[k][1], infos[k][2])]

\* lines 27-33: the loop stops at the first quotient that raises
PiMarginals ==
    /\ pi_pc = "observed"
    /\ LET quotients == SegmentProbabilities(coders_boundaries)
           failing   == {k \in 1 .. Len(quotients) : quotients[k].kind = "raise"}
       IN  IF failing # {}
           THEN /\ pi_result' = quotients[CHOOSE k \in failing :
                                             \A o \in failing : k <= o]
                /\ pi_pc' = "raised"
                /\ p_e_segs' = p_e_segs
           ELSE /\ pi_result' = pi_result
                /\ pi_pc' = "marginals"
                /\ p_e_segs' = [k \in 1 .. Len(quotients) |-> quotients[k].value]
    /\ UNCHANGED <<items_masses, return_parts, num_items, all_numerators,
                   all_denominators, coders_boundaries, A_a, A_e, pi>>
    /\ UNCHANGED wd_vars

\* lines 35-36: the square of the flat mean of the quotients
ExpectedAgreement(probabilities) ==
    LET P_e_seg == FracDivide(SumFracs(probabilities), <<Len(probabilities), 1>>)
    IN  IF P_e_seg.kind = "raise" THEN P_e_seg
        ELSE Returned(FracMul(P_e_seg.value, P_e_seg.value))

\* lines 34-36
PiExpected ==
    /\ pi_pc = "marginals"
    /\ LET square == ExpectedAgreement(p_e_segs)
       IN  IF square.kind = "raise"
           THEN /\ pi_result' = square
                /\ pi_pc' = "raised"
                /\ A_e' = A_e
           ELSE /\ pi_result' = pi_result
                /\ pi_pc' = "expected"
                /\ A_e' = square.value
    /\ UNCHANGED <<items_masses, return_parts, num_items, all_numerators,
                   all_denominators, coders_boundaries, A_a, p_e_segs, pi>>
    /\ UNCHANGED wd_vars

\* line 38
Coefficient(observed, expected) ==
    FracDivide(FracSub(observed, expected), FracSub(<<1, 1>>, expected))

\* lines 37-38
PiCoefficient ==
    /\ pi_pc = "expected"
    /\ LET quotient == Coefficient(A_a, A_e)
       IN  IF quotient.kind = "raise"
           THEN /\ pi_result' = quotient
                /\ pi_pc' = "raised"
                /\ pi' = pi
           ELSE /\ pi_result' = pi_result
                /\ pi_pc' = "coefficient"
                /\ pi' = quotient.value
    /\ UNCHANGED <<items_masses, return_parts, num_items, all_numerators,
                   all_denominators, coders_boundaries, A_a, p_e_segs, A_e>>
    /\ UNCHANGED wd_vars

\* lines 39-43
PiReturn ==
    /\ pi_pc = "coefficient"
    /\ pi_result' = IF return_parts THEN Returned(<<A_a, A_e>>) ELSE Returned(pi)
    /\ pi_pc' = "returned"
    /\ UNCHANGED <<items_masses, return_parts, num_items, all_numerators,
                   all_denominators, coders_boundaries, A_a, p_e_segs, A_e,
                   pi>>
    /\ UNCHANGED wd_vars

NextPi ==
    \/ PiCountItems
    \/ PiCheckItems
    \/ PiActualAgreement
    \/ PiObserved
    \/ PiMarginals
    \/ PiExpected
    \/ PiCoefficient
    \/ PiReturn

SpecPi == InitPi /\ [][NextPi]_vars

\* ------------------------------------------------------------ properties
Finished == pc \in {"returned", "raised"}

\* the window size is at least 1 and at most the sequence length plus the
\* padding the edge-effect fix adds (window_size - 1 units at each end)
ValidWindowSize ==
    /\ window_size # None
    /\ WindowSize >= 1
    /\ WindowSize <= Len(reference_positions)
                     + (IF lamprier_et_al_2007_fix THEN 2 * (WindowSize - 1) ELSE 0)

\* C1: for equal-length, non-empty sequences and a valid window size passed
\* by the caller, with the fix on or off and one_minus on or off, the value
\* returned lies in the closed interval [0, 1].
C1_ScoreInUnitInterval ==
    (pc = "returned" /\ call.window_size # None /\ ValidWindowSize)
        => /\ FracLeq(<<0, 1>>, result.value)
           /\ FracLeq(result.value, <<1, 1>>)

ZeroOrOne == IF one_minus THEN <<1, 1>> ELSE <<0, 1>>

\* C2 as stated: window_diff(p, p) returns 0 (1 with one_minus) for any
\* position sequence p and any window size the caller chooses.
C2_IdentityAnyWindowSize ==
    (Finished /\ call.hypothesis = call.reference /\ call.window_size # None)
        => result = Returned(ZeroOrOne)

\* C2 amended: window_diff(p, p) returns 0 (1 with one_minus) for any
\* non-empty p and any window size, given or computed, except the size
\* len(p) + 1 with the fix off, where the final division is 0 / 0.
C2_IdentityScoresZero ==
    (/\ Finished
     /\ call.hypothesis = call.reference
     /\ ~(~lamprier_et_al_2007_fix
          /\ WindowSize = Len(reference_positions) + 1))
        => result = Returned(ZeroOrOne)

\* p = [1,1,1,2,2,2] (masses [3,3]) compared with itself: windows have been
\* examined, none differed and 0 was returned
C2_IdentityWitness ==
    /\ pc = "returned"
    /\ call.hypothesis = <<3, 3>>
    /\ call.reference = <<3, 3>>
    /\ reference_positions = <<1, 1, 1, 2, 2, 2>>
    /\ WindowSize = 3
    /\ i > 0
    /\ sum_differences = 0
    /\ result = Returned(<<0, 1>>)

\* the outcome of the same call with hypothesis and reference exchanged
SwappedOutcome ==
    WindowDiffOutcome(call.reference, call.hypothesis, call.window_size,
                      one_minus, lamprier_et_al_2007_fix, convert_from_masses)

\* C3 as stated: window_diff(h, r) equals window_diff(r, h) for all
\* equal-length h and r, also when window_size is left unspecified.
C3_Symmetric ==
    Finished => result = SwappedOutcome

\* C3 amended: window_diff(h, r) equals window_diff(r, h) whenever both
\* calls use the same window size, that is when window_size is given, or is
\* left unspecified and h and r yield the same default size.
C3_SymmetricForSameWindowSize ==
    (/\ Finished
     /\ \/ call.window_size # None
        \/ compute_window_size(reference_positions)
              = compute_window_size(hypothesis_positions))
        => result = SwappedOutcome

\* two different segmentations compared under an explicit window size, with
\* windows that differ
C3_SymmetricWitness ==
    /\ pc = "returned"
    /\ call.window_size # None
    /\ call.hypothesis # call.reference
    /\ sum_differences > 0
    /\ result = SwappedOutcome

\* C4: when the two sequences differ in length (after the conversion from
\* masses, if requested), the call raises the length-mismatch error whatever
\* window_size, one_minus and the fix are, and it does so before the window
\* size is computed, before the unit pairs are built and before any window
\* is examined; no score is produced.
C4_LengthMismatchRaisesFirst ==
    (/\ pc \notin {"entry", "converted"}
     /\ Len(reference_positions) # Len(hypothesis_positions))
        => /\ pc = "raised"
           /\ result = Raised("SegmentationMetricError")
           /\ window_size = call.window_size
           /\ units_ref_hyp = << >>
           /\ i = 0
           /\ sum_differences = 0

\* mass sequences of different totals, converted, then rejected
C4_LengthMismatchWitness ==
    /\ pc = "raised"
    /\ convert_from_masses
    /\ reference_positions # call.reference
    /\ Len(reference_positions) # Len(hypothesis_positions)
    /\ call.window_size = None
    /\ one_minus
    /\ lamprier_et_al_2007_fix

\* C5: a window_size argument below 1 or above the sequence length plus
\* padding is rejected: the call raises an error instead of returning a
\* score.
C5_InvalidWindowSizeRejected ==
    (/\ Finished
     /\ call.window_size # None
     /\ Len(reference_positions) = Len(hypothesis_positions)
     /\ ~ValidWindowSize)
        => result.kind = "raise"

\* the boundaries of one side among the `count` unit-pairs that follow the
\* unit at 0-based index `start`
BoundariesAmongPairs(units, side, start, count) ==
    Cardinality({j \in 1 .. count :
                    /\ start + j + 1 <= Len(units)
                    /\ units[start + j][side] # units[start + j + 1][side]})

\* C9: each step compares the boundary counts of the two segmentations over
\* exactly window_size consecutive unit-pairs, a boundary being two adjacent
\* units with different labels, and the mismatch counter has gone up by one
\* for each window examined whose two counts differ (stated for a valid
\* window size passed by the caller).
C9_WindowSpansWindowSizePairs ==
    (pc = "sliding" /\ i > 0 /\ call.window_size # None /\ ValidWindowSize)
        => /\ ref_boundaries =
                 BoundariesAmongPairs(units_ref_hyp, 1, i - 1, WindowSize)
           /\ hyp_boundaries =
                 BoundariesAmongPairs(units_ref_hyp, 2, i - 1, WindowSize)
           /\ sum_differences =
                 Cardinality({s \in 0 .. (i - 1) :
                     BoundariesAmongPairs(units_ref_hyp, 1, s, WindowSize)
                       # BoundariesAmongPairs(units_ref_hyp, 2, s, WindowSize)})

\* the boundaries between two real (unpadded) units of `positions` that lie
\* inside the window starting at 0-based index `start` of the padded list
RealBoundaries(positions, start) ==
    Cardinality({u \in 1 .. (Len(positions) - 1) :
                    /\ start <= phantom_size + u - 1
                    /\ phantom_size + u <= start + WindowSize - 1
                    /\ positions[u] # positions[u + 1]})

\* C10: with the fix on, both sequences are padded at each end with
\* window_size - 1 sentinel units, and no window counts a boundary between
\* two sentinels or between a sentinel and the real unit next to it: the
\* counts of a window are the boundaries between its real units (stated
\* for a valid window size passed by the caller).
C10_SentinelsRegisterNoBoundary ==
    (/\ pc = "sliding"
     /\ call.window_size # None
     /\ lamprier_et_al_2007_fix
     /\ ValidWindowSize)
        => /\ Len(units_ref_hyp)
                 = Len(reference_positions) + 2 * (WindowSize - 1)
           /\ i > 0 => /\ ref_boundaries
                             = RealBoundaries(reference_positions, i - 1)
                       /\ hyp_boundaries
                             = RealBoundaries(hypothesis_positions, i - 1)

PiFinished == pi_pc \in {"returned", "raised"}

ShapeError ==
    /\ pi_result.kind = "raise"
    /\ pi_result.error = "Unequal number of items contained."

EqualItemCounts ==
    \A c \in Coders(items_masses) : Len(items_masses[c]) = Len(items_masses[1])

\* C6: on a dataset of valid shape the computation fails only when the
\* chance-expected agreement A_e is 1; otherwise, single-unit items
\* included, it returns a result (stated for datasets whose observed
\* agreement A_a has been computed).
C6_FailsOnlyWhenExpectedIsOne ==
    (pi_pc = "raised" /\ ~ShapeError /\ A_a # Unset)
        => (A_e # Unset /\ A_e = <<1, 1>>)

\* C7: with return_parts set, the pair (A_a, A_e) is returned whenever A_a
\* and A_e are defined, A_e = 1 included.
C7_PartsReturnedWhenDefined ==
    (return_parts /\ PiFinished /\ A_a # Unset /\ A_e # Unset)
        => /\ pi_result.kind = "return"
           /\ pi_result.value = <<A_a, A_e>>

\* C8: coders with different numbers of items make the call fail with
\* 'Unequal number of items contained.' before the agreement engine runs
\* and before any division; coders with the same number of items never
\* fail this check.
C8_ShapeCheck ==
    /\ (pi_pc \notin {"idle", "entry", "counted"} /\ ~EqualItemCounts)
          => /\ pi_pc = "raised"
             /\ ShapeError
             /\ coders_boundaries = << >>
             /\ A_a = Unset
    /\ EqualItemCounts => ~ShapeError

====
